---- MODULE Spec2Model ----
(***************************************************************************)
(* Model of youtubeChannelVideosFinder.py: the channel lookup              *)
(* (get_channel_id), the per-window pagination                             *)
(* (_get_channel_videos_published_in_interval), the window loop            *)
(* (get_channel_videos) and the entry point (main).                        *)
(*                                                                         *)
(* Dates are counted in days (proleptic Gregorian day numbers, day 0 =     *)
(* 1970-01-01); a 'yyyy-mm-dd' string is the record [y, m, d].  Python's   *)
(* None is the record None; the integer -1 that get_channel_id uses as its *)
(* "no id" value is the string "-1".  The two web APIs are the             *)
(* environment: every response is chosen nondeterministically.             *)
(***************************************************************************)
EXTENDS Integers, Sequences, FiniteSets

VARIABLES
    args,                      \* what the caller passes: earliest, latest, interval, and the clock
    pc,                        \* position of the (single) thread of control
    channelId,                 \* main: result of get_channel_id
    lookupResponse,            \* get_channel_id: the response it received
    earliest, latest, timeInterval,   \* get_channel_videos: after conversion and defaults (days)
    latererer, earliererer, done,     \* get_channel_videos: the window and the loop flag
    latererer_rfc3339, earliererer_rfc3339, \* get_channel_videos: the bounds as sent
    videoList,                 \* get_channel_videos: the accumulator
    videosPublishedInInterval, \* pagination: the window's list (its local videoList)
    nextPageToken, foundAll,   \* pagination: continuation token and loop flag
    request,                   \* the last search request issued
    responseAsJson,            \* pagination: the last search response received
    searchRequests,            \* number of search requests issued (counted up to MaxCount)
    windows,                   \* history: one record per window queried: its bounds as sent,
                               \* whether its pagination ended, and whether by a failure
    pages,                     \* history: the non-empty item lists the search API delivered,
                               \* each with the number of the window it was delivered to
    exitCode, stdout, fatal    \* main: exit status (-1 while running), printed lines, error raised

vars == <<args, pc, channelId, lookupResponse, earliest, latest, timeInterval,
          latererer, earliererer, done, latererer_rfc3339, earliererer_rfc3339,
          videoList, videosPublishedInInterval, nextPageToken, foundAll,
          request, responseAsJson, searchRequests, windows,
          pages, exitCode, stdout, fatal>>

(***************************************************************************)
(* Bounds of the model.                                                    *)
(***************************************************************************)
MaxSpan       == 2   \* latest is at most this many days after earliest (small inputs)
MaxWindows    == 3   \* windows a run may query (no run with a positive interval needs more)
MaxEndless    == 2   \* windows a run may query when its interval is not positive
MaxReceived   == 2   \* items the search API delivers in one run (and in one response)
MaxCount      == 2   \* the request counters stop counting here

(***************************************************************************)
(* Values.                                                                 *)
(***************************************************************************)
None == [none |-> TRUE]
D(y, m, d) == [y |-> y, m |-> m, d |-> d]
Days(n) == [days |-> n]

Min(a, b) == IF a < b THEN a ELSE b
Max(a, b) == IF a > b THEN a ELSE b
Count(n) == Min(n + 1, MaxCount)

\* datetime.datetime.strptime(s, '%Y-%m-%d'): the day number of a civil date
DaysFromCivil(c) ==
    LET y   == IF c.m <= 2 THEN c.y - 1 ELSE c.y
        era == y \div 400
        yoe == y - era * 400
        mp  == (c.m + 9) % 12
        doy == (153 * mp + 2) \div 5 + c.d - 1
        doe == yoe * 365 + yoe \div 4 - yoe \div 100 + doy
    IN  era * 146097 + doe - 719468

\* rfc3339(date, utc=True): the civil date (UTC) of a day number, as sent to the API
rfc3339(z) ==
    LET n   == z + 719468
        era == n \div 146097
        doe == n - era * 146097
        yoe == (doe - doe \div 1460 + doe \div 36524 - doe \div 146096) \div 365
        doy == doe - (365 * yoe + yoe \div 4 - yoe \div 100)
        mp  == (5 * doy + 2) \div 153
        d   == doy - (153 * mp + 2) \div 5 + 1
        m   == IF mp < 10 THEN mp + 3 ELSE mp - 9
        y   == yoe + era * 400 + (IF m <= 2 THEN 1 ELSE 0)
    IN  D(y, m, d)

defaultInterval == 52 * 7
defaultTimeToGoBackTo == DaysFromCivil(D(2005, 2, 14))

(***************************************************************************)
(* Inputs: the arguments of one run.                                       *)
(***************************************************************************)
BaseDate == D(2019, 12, 31)
ScenarioB == [earliest |-> D(2020, 1, 1), latest |-> D(2021, 6, 1),
              interval |-> Days(180), now |-> D(2021, 6, 2)]

SmallArgs ==
    { [earliest |-> BaseDate,
       latest   |-> rfc3339(DaysFromCivil(BaseDate) + k),
       interval |-> Days(i),
       now      |-> D(2021, 6, 2)] : k \in -1 .. MaxSpan, i \in 1 .. 2 }

\* intervals that are not positive
NonPositiveArgs ==
    { [earliest |-> BaseDate,
       latest   |-> rfc3339(DaysFromCivil(BaseDate) + k),
       interval |-> Days(i),
       now      |-> D(2021, 6, 2)] : k \in 0 .. 1, i \in -1 .. 0 }

\* arguments left out: latest is the clock, earliest 2005-02-14, the interval 52 weeks
DefaultArgs ==
    { [earliest |-> None, latest |-> D(2005, 2, 13), interval |-> None, now |-> D(2021, 6, 2)],
      [earliest |-> None, latest |-> D(2005, 2, 16), interval |-> Days(2), now |-> D(2021, 6, 2)],
      [earliest |-> None, latest |-> None, interval |-> None, now |-> D(2006, 2, 15)],
      [earliest |-> D(2006, 2, 14), latest |-> None, interval |-> None, now |-> D(2006, 2, 13)] }

ArgTuples == SmallArgs \cup NonPositiveArgs \cup DefaultArgs \cup {ScenarioB}

(***************************************************************************)
(* The channel lookup API and get_channel_id.                              *)
(***************************************************************************)
ChannelItem(id) == [hasId |-> TRUE, id |-> id]
ChannelItemNoId == [hasId |-> FALSE, id |-> "None"]
ChannelItemLists ==
    {<<>>} \cup { <<f>> : f \in {ChannelItem("UC1"), ChannelItemNoId} }
           \cup { <<f, ChannelItem("UC2")>> : f \in {ChannelItem("UC1"), ChannelItemNoId} }

\* ok = FALSE: the request or the JSON parse failed.  hasTotal = FALSE: pageInfo has
\* no totalResults.  totalResults need not be the number of items.
LookupResponses ==
    { [ok |-> FALSE, hasTotal |-> FALSE, totalResults |-> 0, items |-> <<>>] }
    \cup
    { [ok |-> TRUE, hasTotal |-> FALSE, totalResults |-> 0, items |-> it] :
        it \in ChannelItemLists }
    \cup
    { [ok |-> TRUE, hasTotal |-> TRUE, totalResults |-> t, items |-> it] :
        t \in 0 .. 2, it \in ChannelItemLists }

NoResponse == [ok |-> FALSE, none |-> TRUE]

\* get_channel_id with channelId initialised to None instead of -1 (line 85)
ChannelIdOf_NoneOnFailure(r) ==
    IF r.ok /\ r.hasTotal /\ r.totalResults > 0 /\ r.items # <<>> /\ r.items[1].hasId
    THEN r.items[1].id ELSE "None"

\* get_channel_id with line 102 taking the last item instead of items[0]
ChannelIdOf_Last(r) ==
    IF ~r.ok THEN "-1"
    ELSE IF ~r.hasTotal THEN "-1"
    ELSE IF r.totalResults > 0
         THEN IF r.items = <<>> THEN "-1"
              ELSE IF r.items[Len(r.items)].hasId THEN r.items[Len(r.items)].id ELSE "None"
         ELSE "-1"

\* get_channel_id, lines 85-110: the value of channelId when the try block is left.
\* With no totalResults, None > 0 raises (Python 3) or is false (Python 2): -1 either way.
ChannelIdOf(r) ==
    IF ~r.ok THEN "-1"
    ELSE IF ~r.hasTotal THEN "-1"
    ELSE IF r.totalResults > 0
         THEN IF r.items = <<>> THEN "-1"
              ELSE IF r.items[1].hasId THEN r.items[1].id ELSE "None"
         ELSE "-1"

\* get_channel_id, lines 86-114: the except clause catches every Exception, the
\* raise of line 107 included, and line 114 returns
GetChannelIdResult(r) == [raised |-> FALSE, value |-> ChannelIdOf(r)]

(***************************************************************************)
(* The search API and one page of pagination.                              *)
(***************************************************************************)
VideoIds == {"v1"}
\* an item of a search response: {id: {videoId: v}}, {id: {}} (get gives None), or {} (no id)
VideoItem(v) == [hasId |-> TRUE, videoId |-> v]
VideoItemNoVideoId == [hasId |-> TRUE, videoId |-> "None"]
VideoItemNoId == [hasId |-> FALSE, videoId |-> "None"]
VideoItems == { VideoItem(v) : v \in VideoIds } \cup {VideoItemNoVideoId, VideoItemNoId}

RECURSIVE SeqsUpTo(_, _)
SeqsUpTo(S, n) ==
    IF n = 0 THEN {<<>>}
    ELSE LET shorter == SeqsUpTo(S, n - 1)
         IN  shorter \cup { Append(q, x) : q \in shorter, x \in S }

Tokens == {"", "T1"}

\* ok = FALSE: the request, the JSON parse or the 'items' lookup failed.
\* hasToken = FALSE: the response has no nextPageToken key.
SearchResponses ==
    { [ok |-> FALSE, items |-> <<>>, hasToken |-> FALSE, nextPageToken |-> ""] }
    \cup
    { [ok |-> TRUE, items |-> it, hasToken |-> FALSE, nextPageToken |-> ""] :
        it \in SeqsUpTo(VideoItems, MaxReceived) }
    \cup
    { [ok |-> TRUE, items |-> it, hasToken |-> TRUE, nextPageToken |-> t] :
        it \in SeqsUpTo(VideoItems, MaxReceived), t \in Tokens }

RECURSIVE Delivered(_)
Delivered(ps) == IF ps = <<>> THEN <<>> ELSE Head(ps).items \o Delivered(Tail(ps))

\* lines 143-144: the for loop; video.get('id') is None for an item without id,
\* and None.get raises after the ids before it were appended
RECURSIVE AppendVideos(_, _)
AppendVideos(list, returnedVideos) ==
    IF returnedVideos = <<>> THEN [videoList |-> list, raised |-> FALSE]
    ELSE LET video == Head(returnedVideos)
         IN  IF ~video.hasId THEN [videoList |-> list, raised |-> TRUE]
             ELSE AppendVideos(Append(list, video.videoId), Tail(returnedVideos))

\* lines 146-151 with an empty token taken as "no more pages"
HasNextPage_NonEmpty(r) == r.hasToken /\ r.nextPageToken # ""
\* lines 146-151: responseAsJson['nextPageToken'] raises KeyError when the key is absent
HasNextPage(r) == r.hasToken

\* lines 127-154 with a failure discarding what the window had accumulated
PageResult_DiscardOnFailure(list, token, r) ==
    IF ~r.ok \/ AppendVideos(list, r.items).raised
    THEN [videoList |-> <<>>, nextPageToken |-> token, foundAll |-> TRUE, failed |-> TRUE]
    ELSE [videoList |-> AppendVideos(list, r.items).videoList,
          nextPageToken |-> IF HasNextPage(r) THEN r.nextPageToken ELSE token,
          foundAll |-> ~HasNextPage(r), failed |-> FALSE]

\* lines 127-154 with line 147 assigning the token to another name: the request
\* that follows is sent with the old token
PageResult_StaleToken(list, token, r) ==
    IF ~r.ok \/ AppendVideos(list, r.items).raised
    THEN [videoList |-> AppendVideos(list, r.items).videoList, nextPageToken |-> token,
          foundAll |-> TRUE, failed |-> TRUE]
    ELSE [videoList |-> AppendVideos(list, r.items).videoList, nextPageToken |-> token,
          foundAll |-> ~HasNextPage(r), failed |-> FALSE]

\* lines 127-154: the state of the pagination loop after one response
PageResult(list, token, r) ==
    IF ~r.ok
    THEN [videoList |-> list, nextPageToken |-> token, foundAll |-> TRUE, failed |-> TRUE]
    ELSE LET a == AppendVideos(list, r.items)
         IN  IF a.raised
             THEN [videoList |-> a.videoList, nextPageToken |-> token,
                   foundAll |-> TRUE, failed |-> TRUE]
             ELSE IF HasNextPage(r)
             THEN [videoList |-> a.videoList, nextPageToken |-> r.nextPageToken,
                   foundAll |-> FALSE, failed |-> FALSE]
             ELSE [videoList |-> a.videoList, nextPageToken |-> token,
                   foundAll |-> TRUE, failed |-> FALSE]

(***************************************************************************)
(* get_channel_videos: conversions, range check and window arithmetic.     *)
(***************************************************************************)
\* lines 164-165, 170-171
ToDate(a, default) == IF a = None THEN default ELSE DaysFromCivil(a)
\* lines 166-167, 172
ToInterval(a) == IF a = None THEN defaultInterval ELSE a.days
\* line 175 with the comparison left out
InvalidRange_Never(l, e) == FALSE
\* line 175
InvalidRange(l, e) == l < e
\* lines 187-189 without the clamp
ClampToEarliest_NoClamp(e2, e) == e2
\* lines 187-189 with the comparison of line 187 reversed
ClampToEarliest_Inverted(e2, e) == IF e2 > e THEN e ELSE e2
\* lines 187-189
ClampToEarliest(e2, e) == IF e2 < e THEN e ELSE e2
\* lines 191-193
LastRoundTrip(e2, e) == e2 = e
\* line 202 putting the window's ids in front of the accumulator
Extend_Prepend(list, more) == more \o list
\* line 202
Extend(list, more) == list \o more
\* line 210 going back one day more than the interval
NextDate_SkipDay(e2, ti) == e2 - ti - 1
\* line 210 computing the next date from the wrong variable (no progress)
NextDate_NoProgress(e2, ti) == e2
\* line 210
NextDate(e2, ti) == e2 - ti

NoRequest == [none |-> TRUE]

\* line 129 with publishedBefore and publishedAfter exchanged
SearchRequest_SwappedBounds(cid, before, after, token) ==
    [channelId |-> cid, publishedBefore |-> after, publishedAfter |-> before,
     pageToken |-> token]

\* line 129: the parameters of the search URL
SearchRequest(cid, before, after, token) ==
    [channelId |-> cid, publishedBefore |-> before, publishedAfter |-> after,
     pageToken |-> token]

Init ==
    /\ args \in ArgTuples
    /\ pc = "main"
    /\ channelId = "-1"
    /\ lookupResponse = NoResponse
    /\ earliest = 0 /\ latest = 0 /\ timeInterval = 0
    /\ latererer = 0 /\ earliererer = 0 /\ done = FALSE
    /\ latererer_rfc3339 = None /\ earliererer_rfc3339 = None
    /\ videoList = <<>>
    /\ videosPublishedInInterval = <<>>
    /\ nextPageToken = "" /\ foundAll = FALSE
    /\ request = NoRequest
    /\ responseAsJson = NoResponse
    /\ searchRequests = 0
    /\ windows = <<>>
    /\ pages = <<>>
    /\ exitCode = -1 /\ stdout = <<>> /\ fatal = "none"

collectVars == <<earliest, latest, timeInterval, latererer, earliererer, done,
                 latererer_rfc3339, earliererer_rfc3339, videoList>>
pageVars == <<videosPublishedInInterval, nextPageToken, foundAll, request,
              responseAsJson, searchRequests, windows, pages>>

\* main line 224 and get_channel_id, lines 80-114: one lookup request, one response
GetChannelId ==
    /\ pc = "main"
    /\ \E r \in LookupResponses :
         LET res == GetChannelIdResult(r)
         IN  /\ lookupResponse' = r
             /\ IF res.raised
                THEN /\ fatal' = "lookup raised"
                     /\ exitCode' = 2
                     /\ pc' = "exit"
                     /\ UNCHANGED channelId
                ELSE /\ channelId' = res.value
                     /\ pc' = "resolved"
                     /\ UNCHANGED <<fatal, exitCode>>
    /\ UNCHANGED <<args, collectVars, pageVars, stdout>>

\* main without the check of lines 225-226
CheckChannelId_NoCheck ==
    /\ pc = "resolved"
    /\ pc' = "collect"
    /\ lookupResponse' = NoResponse
    /\ UNCHANGED <<args, channelId, collectVars, pageVars, stdout, fatal, exitCode>>

\* main lines 225-226 and 237-239
CheckChannelId ==
    /\ pc = "resolved"
    /\ IF channelId = "-1"
       THEN /\ fatal' = "no channel id"
            /\ exitCode' = 2
            /\ pc' = "exit"
       ELSE /\ pc' = "collect"
            /\ UNCHANGED <<fatal, exitCode>>
    /\ lookupResponse' = NoResponse
    /\ UNCHANGED <<args, channelId, collectVars, pageVars, stdout>>

\* get_channel_videos lines 164-184; main lines 237-239 when it raises
BeginCollect ==
    /\ pc = "collect"
    /\ LET l  == ToDate(args.latest, DaysFromCivil(args.now))
           e  == ToDate(args.earliest, defaultTimeToGoBackTo)
           ti == ToInterval(args.interval)
       IN  /\ latest' = l /\ earliest' = e /\ timeInterval' = ti
           /\ IF InvalidRange(l, e)
              THEN /\ fatal' = "invalid range"
                   /\ exitCode' = 2
                   /\ pc' = "exit"
                   /\ UNCHANGED <<latererer, earliererer>>
              ELSE /\ latererer' = l
                   /\ earliererer' = l - ti
                   /\ pc' = "window"
                   /\ UNCHANGED <<fatal, exitCode>>
    /\ done' = FALSE
    /\ videoList' = <<>>
    /\ UNCHANGED <<args, channelId, lookupResponse, latererer_rfc3339,
                   earliererer_rfc3339, pageVars, stdout>>

\* get_channel_videos lines 186-199 and pagination lines 121-125
BeginWindow ==
    /\ pc = "window"
    /\ ~done
    /\ Len(windows) < MaxWindows
    /\ timeInterval > 0 \/ Len(windows) < MaxEndless
    /\ LET e2 == ClampToEarliest(earliererer, earliest)
       IN  /\ earliererer' = e2
           /\ done' = LastRoundTrip(e2, earliest)
           /\ earliererer_rfc3339' = rfc3339(e2)
           /\ latererer_rfc3339' = rfc3339(latererer)
           /\ windows' = Append(windows,
                 [before |-> rfc3339(latererer), after |-> rfc3339(e2),
                  closed |-> FALSE, aborted |-> FALSE])
    /\ videosPublishedInInterval' = <<>>
    /\ foundAll' = FALSE
    /\ nextPageToken' = ""
    /\ responseAsJson' = NoResponse
    /\ pc' = "fetch"
    /\ UNCHANGED <<args, channelId, lookupResponse, earliest, latest, timeInterval,
                   latererer, videoList, request, searchRequests, pages,
                   exitCode, stdout, fatal>>

\* pagination lines 127-154: one pass of the while loop, one request and its response
FetchPage ==
    /\ pc = "fetch"
    /\ ~foundAll
    /\ \E r \in SearchResponses :
         /\ Len(Delivered(pages)) + Len(r.items) <= MaxReceived
         /\ request' = SearchRequest(channelId, latererer_rfc3339,
                                     earliererer_rfc3339, nextPageToken)
         /\ responseAsJson' = r
         /\ pages' = IF r.items = <<>> THEN pages
                      ELSE Append(pages, [window |-> Len(windows), items |-> r.items])
         /\ LET p == PageResult(videosPublishedInInterval, nextPageToken, r)
            IN  /\ videosPublishedInInterval' = p.videoList
                /\ nextPageToken' = p.nextPageToken
                /\ foundAll' = p.foundAll
                /\ pc' = IF p.foundAll THEN "fetched" ELSE "fetch"
                /\ windows' = IF p.foundAll
                              THEN [windows EXCEPT ![Len(windows)] =
                                      [@ EXCEPT !.closed = TRUE, !.aborted = p.failed]]
                              ELSE windows
    /\ searchRequests' = Count(searchRequests)
    /\ UNCHANGED <<args, channelId, lookupResponse, collectVars, exitCode, stdout, fatal>>

\* pagination lines 156-157 and get_channel_videos lines 199-212
EndWindow ==
    /\ pc = "fetched"
    /\ videoList' = Extend(videoList, videosPublishedInInterval)
    /\ IF ~done
       THEN /\ latererer' = earliererer
            /\ earliererer' = NextDate(earliererer, timeInterval)
            /\ pc' = "window"
       ELSE /\ pc' = "collected"
            /\ UNCHANGED <<latererer, earliererer>>
    /\ request' = NoRequest
    /\ responseAsJson' = NoResponse
    /\ UNCHANGED <<args, channelId, lookupResponse, earliest, latest, timeInterval,
                   done, latererer_rfc3339, earliererer_rfc3339,
                   videosPublishedInInterval, nextPageToken, foundAll,
                   searchRequests, windows, pages,
                   exitCode, stdout, fatal>>

\* main with a bare except in line 237: the SystemExit of sys.exit(0), line 232, is
\* caught and the run with no video exits with 2
Output_BareExcept ==
    /\ pc = "collected"
    /\ stdout' = videoList
    /\ exitCode' = IF Len(videoList) <= 0 THEN 2 ELSE 0
    /\ pc' = "exit"
    /\ UNCHANGED <<args, channelId, lookupResponse, collectVars, pageVars, fatal>>

\* get_channel_videos lines 214-215 and main lines 228-236
Output ==
    /\ pc = "collected"
    /\ stdout' = videoList
    /\ exitCode' = 0
    /\ pc' = "exit"
    /\ UNCHANGED <<args, channelId, lookupResponse, collectVars, pageVars, fatal>>

Next ==
    \/ GetChannelId
    \/ CheckChannelId
    \/ BeginCollect
    \/ BeginWindow
    \/ FetchPage
    \/ EndWindow
    \/ Output

Spec == Init /\ [][Next]_vars

\* the program is one sequential thread: it takes its next step whenever it has one
FairSpec == Spec /\ WF_vars(Next)

(***************************************************************************)
(* Properties.                                                             *)
(***************************************************************************)
Collecting == pc \in {"window", "fetch", "fetched", "collected"}
Returned == pc = "collected" \/ (pc = "exit" /\ fatal = "none")
Upper(i) == DaysFromCivil(windows[i].before)
Lower(i) == DaysFromCivil(windows[i].after)

\* C1: for latest >= earliest and a positive interval the windows queried tile
\* [earliest, latest]: the first upper bound is latest, each later upper bound is
\* the previous lower bound, no bound lies outside [earliest, latest], no window
\* is empty unless latest = earliest, and once get_channel_videos has returned the
\* last lower bound is earliest.
WindowsTileRange ==
    (timeInterval > 0 /\ windows # <<>>) =>
        /\ latest >= earliest
        /\ windows[1].before = rfc3339(latest)
        /\ \A i \in 2 .. Len(windows) : windows[i].before = windows[i - 1].after
        /\ \A i \in 1 .. Len(windows) :
              /\ earliest <= Lower(i) /\ Lower(i) <= Upper(i) /\ Upper(i) <= latest
              /\ Lower(i) < Upper(i) \/ latest = earliest
        /\ Returned => windows[Len(windows)].after = rfc3339(earliest)

\* C1 witness: three windows were queried and the last one was clamped
WindowsTileRangeWitness ==
    /\ pc = "collected" /\ timeInterval > 0 /\ Len(windows) = 3
    /\ Upper(3) - Lower(3) < timeInterval

\* C2: with latest < earliest get_channel_videos raises (main exits with 2) and no
\* search request was issued, no window was begun.
InvalidRangeNoRequest ==
    (pc \notin {"main", "resolved", "collect"} /\ latest < earliest) =>
        /\ pc = "exit" /\ fatal = "invalid range" /\ exitCode = 2
        /\ searchRequests = 0 /\ windows = <<>> /\ request = NoRequest

\* C2 witness: get_channel_videos was called with latest < earliest and has raised
InvalidRangeNoRequestWitness ==
    pc = "exit" /\ fatal = "invalid range" /\ latest < earliest

\* What the history says a response contributes: the videoId of every item before
\* the first item without an id ("None" for an item whose id has no videoId).
FirstNoId(items) ==
    IF \E i \in 1 .. Len(items) : ~items[i].hasId
    THEN CHOOSE i \in 1 .. Len(items) :
            ~items[i].hasId /\ \A j \in 1 .. i - 1 : items[j].hasId
    ELSE Len(items) + 1
Accepted(items) == [i \in 1 .. FirstNoId(items) - 1 |-> items[i].videoId]

\* the ids the history attributes to the windows whose numbers are in W, in order
RECURSIVE AcceptedOf(_, _)
AcceptedOf(ps, W) ==
    IF ps = <<>> THEN <<>>
    ELSE (IF Head(ps).window \in W THEN Accepted(Head(ps).items) ELSE <<>>)
         \o AcceptedOf(Tail(ps), W)

\* window i's list has been added to the accumulator (line 202)
Extended(i) == i < Len(windows) \/ pc \in {"window", "collected", "exit"}

\* C3: a failure on a page of a window is contained to that window: the ids the
\* window had accumulated are in the accumulator right after the ids of the earlier
\* windows, which are unchanged; the loop goes on to the later windows (it ends only
\* with the window whose lower bound is earliest); and the run ends normally, with
\* exit code 0 and the accumulator printed.
FailureContained ==
    (\E i \in 1 .. Len(windows) : windows[i].aborted) =>
        /\ \A i \in 1 .. Len(windows) :
              (windows[i].aborted /\ Extended(i)) =>
                 LET before == AcceptedOf(pages, 1 .. i - 1)
                     own    == AcceptedOf(pages, {i})
                 IN  /\ Len(videoList) >= Len(before) + Len(own)
                     /\ SubSeq(videoList, 1, Len(before)) = before
                     /\ SubSeq(videoList, Len(before) + 1, Len(before) + Len(own)) = own
        /\ pc \in {"collected", "exit"} => windows[Len(windows)].after = rfc3339(earliest)
        /\ pc = "exit" => (exitCode = 0 /\ fatal = "none" /\ stdout = videoList)

\* C3 witness: a window that is not the last was aborted after it had accumulated
\* ids, and the run has ended
FailureContainedWitness ==
    /\ pc = "exit"
    /\ \E i \in 1 .. Len(windows) - 1 :
          /\ windows[i].aborted
          /\ AcceptedOf(pages, {i}) # <<>>
          /\ \E p \in 1 .. Len(pages) : pages[p].window > i

\* a response that ends the pagination of its window: the request or the parse
\* failed, an item has no id, or there is no nextPageToken key
EndsPagination(r) ==
    \/ ~r.ok
    \/ \E i \in 1 .. Len(r.items) : ~r.items[i].hasId
    \/ ~r.hasToken

NoRequestAfterAbsentOrEmptyToken ==
    (pc = "fetch" /\ responseAsJson # NoResponse) =>
        (responseAsJson.hasToken /\ responseAsJson.nextPageToken # "")

PositiveInterval == ToInterval(args.interval) > 0

\* C6: for latest >= earliest and a positive interval the window loop ends, provided
\* every window's pagination ends (the run is not in a pagination for ever): the run
\* reaches its exit, the window whose lower bound is earliest is the last one
\* queried, and the loop is never entered again once done is set.
WindowLoopTerminates ==
    /\ [](PositiveInterval =>
            /\ pc = "window" => ~done
            /\ \A i \in 1 .. Len(windows) - 1 : windows[i].after # rfc3339(earliest))
    /\ (PositiveInterval /\ []<>(pc # "fetch")) => <>(pc = "exit")

\* C6 witness: the loop has ended after more than one window
WindowLoopTerminatesWitness ==
    pc = "collected" /\ done /\ timeInterval > 0 /\ Len(windows) >= 2

\* C7 as stated: an interval of zero or a negative number of days never reaches the
\* window loop and no search request is issued with it
NonPositiveIntervalNeverUsed ==
    (pc \notin {"main", "resolved", "collect"} /\ timeInterval <= 0) =>
        (searchRequests = 0 /\ windows = <<>>)

CeilDiv(a, b) == (a + b - 1) \div b

\* C8: for latest >= earliest and a positive interval, once get_channel_videos has
\* returned the number of windows queried is max(1, ceil((latest - earliest) /
\* interval)), every window but the last is exactly one interval wide and the last
\* at most one; earliest 2020-01-01, latest 2021-06-01, interval 180 days gives the
\* windows 2021-06-01 to 2020-12-03, 2020-12-03 to 2020-06-06, 2020-06-06 to
\* 2020-01-01.
WindowCountAndBounds ==
    (Returned /\ timeInterval > 0) =>
        /\ Len(windows) = Max(1, CeilDiv(latest - earliest, timeInterval))
        /\ \A i \in 1 .. Len(windows) - 1 : Upper(i) - Lower(i) = timeInterval
        /\ Upper(Len(windows)) - Lower(Len(windows)) <= timeInterval
        /\ args = ScenarioB =>
              [i \in 1 .. Len(windows) |-> <<windows[i].before, windows[i].after>>] =
                 << <<D(2021, 6, 1), D(2020, 12, 3)>>,
                    <<D(2020, 12, 3), D(2020, 6, 6)>>,
                    <<D(2020, 6, 6), D(2020, 1, 1)>> >>

\* C8 witness: the run of the scenario has returned
WindowCountAndBoundsWitness == pc = "collected" /\ args = ScenarioB

\* the ids among the items the search API delivered, in the order of delivery
RECURSIVE IdsIn(_)
IdsIn(items) ==
    IF items = <<>> THEN <<>>
    ELSE (IF Head(items).hasId /\ Head(items).videoId # "None"
          THEN <<Head(items).videoId>> ELSE <<>>) \o IdsIn(Tail(items))

\* the window's list while its pagination runs or has just ended
Pending == IF pc \in {"fetch", "fetched"} THEN videosPublishedInInterval ELSE <<>>

LookupFails(r) == ~r.ok \/ (r.hasTotal /\ r.totalResults = 0)

\* C10 as stated: on zero matches or a failed request get_channel_id raises and
\* returns no value
LookupFailureRaises ==
    (lookupResponse # NoResponse /\ LookupFails(lookupResponse)) =>
        (pc = "exit" /\ fatal = "lookup raised")

\* C10 as amended: get_channel_id never raises; on zero matches or a failed request
\* it returns -1, and main turns -1 (and nothing else) into the fatal error "no
\* channel id" with exit code 2, before any search request.
LookupFailureReturnsMinusOne ==
    /\ fatal # "lookup raised"
    /\ (lookupResponse # NoResponse /\ LookupFails(lookupResponse)) =>
          (pc = "resolved" /\ channelId = "-1")
    /\ pc \notin {"main", "resolved"} =>
          (channelId = "-1" <=> (pc = "exit" /\ fatal = "no channel id"))
    /\ fatal = "no channel id" => (exitCode = 2 /\ searchRequests = 0)

\* C10 witness: the lookup reported zero matches and get_channel_id has returned
LookupFailureReturnsMinusOneWitness ==
    /\ pc = "resolved" /\ channelId = "-1"
    /\ lookupResponse.ok /\ lookupResponse.hasTotal /\ lookupResponse.totalResults = 0

\* C11: when the lookup reports zero matches or fails in transport or parsing, the
\* next step of main is the exit with code 2, taken before get_channel_videos is
\* entered (no window, no search request), and nothing follows the exit.
LookupFailureExitsBeforeCollect ==
    [][/\ pc # "exit"
       /\ (pc = "resolved" /\ LookupFails(lookupResponse)) =>
             /\ pc' = "exit" /\ exitCode' = 2 /\ fatal' = "no channel id"
             /\ searchRequests' = 0 /\ windows' = <<>> /\ request' = NoRequest]_vars

\* C11 witness: main has exited with code 2 for want of a channel id
LookupFailureExitsWitness ==
    /\ pc = "exit" /\ fatal = "no channel id" /\ exitCode = 2
    /\ channelId = "-1" /\ searchRequests = 0

\* C12 as stated: video collection is never started with an absent (null) channel
\* identifier: with channelId None main does not enter get_channel_videos and no
\* search request carries None
NoCollectionWithoutChannelId ==
    channelId = "None" =>
        /\ pc \in {"resolved", "exit"}
        /\ searchRequests = 0 /\ windows = <<>>

\* the range of the arguments, after conversion and defaults, is valid
ValidRangeArgs ==
    ToDate(args.latest, DaysFromCivil(args.now)) >=
        ToDate(args.earliest, defaultTimeToGoBackTo)

\* C13: main exits with 0 or 2 and nothing else: with 0 exactly when get_channel_id
\* gave a channel id (not -1) and the range is valid, whether or not videos were
\* found or windows were aborted, and with 2 exactly when a fatal error was raised
\* (no channel id, invalid range).
ExitCodeZeroOrTwo ==
    /\ exitCode \in {-1, 0, 2}
    /\ pc = "exit" <=> exitCode # -1
    /\ pc = "exit" =>
          /\ exitCode = 0 <=> (channelId # "-1" /\ ValidRangeArgs)
          /\ exitCode = 2 <=> fatal \in {"no channel id", "invalid range"}
          /\ exitCode = 0 <=> fatal = "none"

\* C13 witness: a run that found no video and whose only window was aborted has
\* exited with 0
ExitCodeZeroOrTwoWitness ==
    /\ pc = "exit" /\ exitCode = 0 /\ videoList = <<>>
    /\ \E i \in 1 .. Len(windows) : windows[i].aborted

\* the window being paginated is the last one of the history and is not closed
\* (closed: DONE or ABORTED); every earlier window is closed
OneOpenWindow ==
    /\ \A i \in 1 .. Len(windows) - 1 : windows[i].closed
    /\ pc = "fetch" <=> (windows # <<>> /\ ~windows[Len(windows)].closed)

\* C15: per-window pagination follows STARTED -> (FETCHING -> HAS_MORE)* -> FETCHING
\* -> DONE | ABORTED: requests are issued only while the current window is open, and
\* the windows before it are closed; the first request of a window carries the
\* empty token and each later one the token of the response just received; once a
\* window is closed no response is delivered and no request issued until the next
\* window is begun.
PaginationStateMachine ==
    /\ []OneOpenWindow
    /\ [][/\ pc = "fetch" =>
                /\ request' # NoRequest
                /\ request'.pageToken =
                      (IF responseAsJson = NoResponse THEN ""
                       ELSE responseAsJson.nextPageToken)
                /\ pc' \in {"fetch", "fetched"}
                /\ Len(windows') = Len(windows)
          /\ pc # "fetch" =>
                /\ request' \in {NoRequest, request}
                /\ responseAsJson' = NoResponse
                /\ pages' = pages /\ searchRequests' = searchRequests
          /\ Len(windows') > Len(windows) =>
                (request = NoRequest /\ \A i \in 1 .. Len(windows) : windows[i].closed)
         ]_vars

\* C15 witness: in a second window a request was sent with the token of the
\* response before it, and the window is done
PaginationStateMachineWitness ==
    /\ pc = "fetched" /\ Len(windows) = 2
    /\ request.pageToken = "T1"
    /\ windows[2].closed /\ ~windows[2].aborted

Width(i) == Upper(i) - Lower(i)

\* C16: for latest >= earliest and a positive interval no window is wider than
\* the interval, every window but the last is exactly one interval wide, and a
\* window narrower than the interval (a clamped one) is the last: its lower bound
\* is earliest and it is marked as the final round trip.
WindowWidths ==
    (timeInterval > 0 /\ windows # <<>>) =>
        /\ \A i \in 1 .. Len(windows) : Width(i) <= timeInterval
        /\ \A i \in 1 .. Len(windows) - 1 : Width(i) = timeInterval
        /\ \A i \in 1 .. Len(windows) :
             Width(i) < timeInterval =>
                 (i = Len(windows) /\ done /\ Lower(i) = earliest)

\* C16 witness: a collection has returned after full windows and a clamped last one
WindowWidthsWitness ==
    /\ pc = "collected" /\ timeInterval > 0 /\ Len(windows) >= 2
    /\ Width(1) = timeInterval
    /\ Width(Len(windows)) < timeInterval /\ Width(Len(windows)) > 0

\* the lookup response reports more than one match and lists its matches
Ambiguous(r) == r.ok /\ r.hasTotal /\ r.totalResults > 1 /\ r.items # <<>>

PaginationFrame ==
    /\ [](request # NoRequest =>
            /\ windows # <<>>
            /\ request.channelId = channelId
            /\ request.publishedBefore = windows[Len(windows)].before
            /\ request.publishedAfter = windows[Len(windows)].after)
    /\ [][pc = "fetch" =>
            /\ UNCHANGED <<args, channelId, lookupResponse, collectVars,
                           exitCode, stdout, fatal>>
            /\ request # NoRequest =>
                  /\ request'.channelId = request.channelId
                  /\ request'.publishedBefore = request.publishedBefore
                  /\ request'.publishedAfter = request.publishedAfter
            /\ Len(videosPublishedInInterval') >= Len(videosPublishedInInterval)
            /\ SubSeq(videosPublishedInInterval', 1, Len(videosPublishedInInterval))
                  = videosPublishedInInterval
         ]_vars

\* C18 witness: the second request of a later window has been sent, with ids
\* accumulated both for an earlier window and for this one
PaginationFrameWitness ==
    /\ pc \in {"fetch", "fetched"} /\ Len(windows) >= 2
    /\ request # NoRequest /\ request.pageToken = "T1"
    /\ request.publishedBefore # request.publishedAfter
    /\ videoList # <<>> /\ videosPublishedInInterval # <<>>

====
